---- MODULE Spec2Model ----
(***************************************************************************)
(* A model of logteehtml/logteehtml.py: the LogTeeHTML writer that keeps   *)
(* an HTML log file well-formed by seek-and-rewrite in front of a footer   *)
(* marker, and the _StreamProxy tee in front of it.                        *)
(*                                                                         *)
(* Representation.  A str / bytes value is a sequence of UNITS; a unit is  *)
(* a TLA+ string standing for a run of characters that the code never      *)
(* looks inside (a letter, a newline, one escape sequence, one tag).  The  *)
(* file is the sequence of the units written to it, and a file offset is   *)
(* an index into that sequence (1-based; 0 stands for None).  The text     *)
(* "ESC" in a unit stands for the byte 0x1b.                               *)
(***************************************************************************)
EXTENDS Integers, Sequences, FiniteSets, TLC

VARIABLES
  fh,                 \* self._fh: the bytes of the log file
  markerPosCache,     \* self._marker_pos_cache (0 = None)
  lastChunkType,      \* self._last_chunk_type  ("None" = None)
  lastChunkBase,      \* self._last_chunk_base  ("None" = None)
  ansiState,          \* self._ansi_state
  currentSectionId,   \* self._current_section_id ("unset" = attribute absent)
  origStdout,         \* what reached self._orig_stdout, in order
  origStderr,         \* what reached self._orig_stderr, in order
  realFd,             \* what os.write sent to sys.__stdout__'s descriptor
  env,                \* how the interpreter's streams are wired (see Envs)
  written,            \* what the program wrote to sys.stdout / sys.stderr
  sysStdout,          \* what sys.stdout is bound to: "proxy" or "orig"
  sysStderr,          \* what sys.stderr is bound to: "proxy" or "orig"
  fhClosed,           \* self._fh.closed
  thr,                \* per thread: where its call of print stands, and the
                      \* locals of that call
  fork,               \* the writer when the first thread made its call
  proc,               \* per process: where its call of print stands, and
                      \* the write it has prepared
  hist,               \* the public operations so far: name, text, kind
  pre,                \* the file and block state before the last operation
  op,                 \* the last public operation and what it observed
  run,                \* the current run of consecutive like prints
  nops                \* number of public operations so far

vars == <<fh, markerPosCache, lastChunkType, lastChunkBase, ansiState,
          currentSectionId, origStdout, origStderr, realFd, env, written,
          sysStdout, sysStderr, fhClosed, thr, fork, proc, hist, pre, op, run,
          nops>>

-----------------------------------------------------------------------------
(* Bounds of the model *)

\* number of public operations in one behaviour
MaxOps == 4

-----------------------------------------------------------------------------
(* Module constants: logteehtml.py lines 15-21 *)

FOOTER_MARKER == "<!-- LOGTEEHTML_FOOTER -->"

CHUNK_CLOSER == <<"</pre>", "</div>", "\n">>

None == "None"

\* the longest line the auto-anchor scan looks at (line 479)
MaxAnchorLineLen == 160

\* the template file (pretty.html) is not part of the sources: a fixed
\* header, the marker, a fixed footer tail
TemplateHeader == <<"<!DOCTYPE html><html><head><title>log</title></head>", "<body>">>

TemplateFooterTail == <<"</body>", "</html>">>

Template == TemplateHeader \o <<FOOTER_MARKER>> \o TemplateFooterTail

-----------------------------------------------------------------------------
(* Units of text *)

\* SGR sequences ESC [ params m, with the codes int() parses out of them
SgrUnits == {"ESC[0m", "ESC[m", "ESC[1m", "ESC[2m", "ESC[4m", "ESC[3m",
             "ESC[31m", "ESC[32m", "ESC[44m", "ESC[93m", "ESC[102m", "ESC[1;31m"}

SgrCodes(u) ==
  CASE u = "ESC[0m"    -> <<0>>
    [] u = "ESC[m"     -> <<>>
    [] u = "ESC[1m"    -> <<1>>
    [] u = "ESC[2m"    -> <<2>>
    [] u = "ESC[4m"    -> <<4>>
    [] u = "ESC[3m"    -> <<3>>
    [] u = "ESC[31m"   -> <<31>>
    [] u = "ESC[32m"   -> <<32>>
    [] u = "ESC[44m"   -> <<44>>
    [] u = "ESC[93m"   -> <<93>>
    [] u = "ESC[102m"  -> <<102>>
    [] u = "ESC[1;31m" -> <<1, 31>>
    [] OTHER           -> <<>>

\* escape sequences ESC [ params <letter other than m>
CsiUnits == {"ESC[A", "ESC[K", "ESC[2A"}

\* text.find('\x1b[') succeeds: a complete sequence or a bare introducer
HasEscIntro(text) ==
  \E i \in 1..Len(text) : text[i] \in SgrUnits \cup CsiUnits \cup {"ESC["}

\* runs of '#', by their length
HashLen(u) ==
  CASE u = "##" -> 2 [] u = "###" -> 3 [] u = "####" -> 4 [] OTHER -> 0

\* the Rich panel border characters of _RICH_PANEL_TOP_RE
PanelTopLeft == "(U+256D)(U+2500)"

PanelDash == "(U+2500)"

PanelTopRight == "(U+256E)"

\* a run of 161 letters: longer than any line the auto-anchor scan accepts
LongRun == "a(x161)"

\* len() of a unit, in characters
UnitLen(u) ==
  CASE u = LongRun       -> 161
    [] u = FOOTER_MARKER -> 26
    [] u = "Done."       -> 5
    [] u = PanelTopLeft  -> 2
    [] HashLen(u) > 0    -> HashLen(u)
    [] u \in SgrUnits \cup CsiUnits -> 4
    [] OTHER             -> 1

\* \s of the regular expressions, among the units of one line
IsSpace(u) == u \in {" ", "\t"}

-----------------------------------------------------------------------------
(* Sequence helpers: the str / bytes methods the code uses *)

Max(S) == CHOOSE x \in S : \A y \in S : y <= x

Min(S) == CHOOSE x \in S : \A y \in S : x <= y

Contains(s, u) == \E i \in 1..Len(s) : s[i] = u

\* bytes.rfind(pat) in s[1..limit]: the last start of pat, 0 when absent
RFind(s, pat, limit) ==
  LET n == Len(pat)
      hits == { i \in 1..(limit - n + 1) : SubSeq(s, i, i + n - 1) = pat }
  IN  IF hits = {} THEN 0 ELSE Max(hits)

\* the first index at or after from where s holds u, 0 when absent
FindFrom(s, u, from) ==
  LET hits == { i \in from..Len(s) : s[i] = u }
  IN  IF hits = {} THEN 0 ELSE Min(hits)

\* str.split(sep)
RECURSIVE Split(_, _)
Split(s, sep) ==
  LET i == FindFrom(s, sep, 1)
  IN  IF i = 0 THEN <<s>>
      ELSE <<SubSeq(s, 1, i - 1)>> \o Split(SubSeq(s, i + 1, Len(s)), sep)

\* sep.join(parts)
RECURSIVE Join(_, _)
Join(parts, sep) ==
  IF Len(parts) = 0 THEN <<>>
  ELSE IF Len(parts) = 1 THEN parts[1]
  ELSE parts[1] \o <<sep>> \o Join(Tail(parts), sep)

\* str.splitlines(): breaks at \n, \r and \r\n, no empty last line
RECURSIVE SplitLines(_)
SplitLines(s) ==
  IF Len(s) = 0 THEN <<>>
  ELSE LET hits == { i \in 1..Len(s) : s[i] \in {"\n", "\r"} }
       IN  IF hits = {} THEN <<s>>
           ELSE LET i == Min(hits)
                    w == IF s[i] = "\r" /\ i < Len(s) /\ s[i + 1] = "\n" THEN 2 ELSE 1
                IN  <<SubSeq(s, 1, i - 1)>> \o SplitLines(SubSeq(s, i + w, Len(s)))

\* ''.join of strings
RECURSIVE ConcatStr(_)
ConcatStr(parts) ==
  IF Len(parts) = 0 THEN "" ELSE parts[1] \o ConcatStr(Tail(parts))

\* sep.join of strings
RECURSIVE JoinStr(_, _)
JoinStr(parts, sep) ==
  IF Len(parts) = 0 THEN ""
  ELSE IF Len(parts) = 1 THEN parts[1]
  ELSE parts[1] \o sep \o JoinStr(Tail(parts), sep)

-----------------------------------------------------------------------------
(* Conversions *)

\* no replacement at all
EscapeUnitRaw(u) == u

\* str.replace of '&', '<', '>' on one unit
EscapeUnit(u) ==
  CASE u = "&"                      -> "&amp;"
    [] u = "<"                      -> "&lt;"
    [] u = ">"                      -> "&gt;"
    [] u = FOOTER_MARKER            -> "&lt;!-- LOGTEEHTML_FOOTER --&gt;"
    [] u = "</pre>"                 -> "&lt;/pre&gt;"
    [] u = "</div>"                 -> "&lt;/div&gt;"
    [] u = "<pre>"                  -> "&lt;pre&gt;"
    [] u = "</span>"                -> "&lt;/span&gt;"
    [] u = "<div class=\"stdout\">" -> "&lt;div class=\"stdout\"&gt;"
    [] u = "<div class=\"stderr\">" -> "&lt;div class=\"stderr\"&gt;"
    [] u = "<div class=\"ansi-cursor\">" -> "&lt;div class=\"ansi-cursor\"&gt;"
    [] OTHER                        -> u

\* _escape_html
EscapeHtml(text) == [i \in 1..Len(text) |-> EscapeUnit(text[i])]

\* _strip_ansi: re.sub(r"\x1b\[[0-9;]*[A-Za-z]", "", text)
StripAnsi(text) ==
  LET Keep(u) == u \notin SgrUnits \cup CsiUnits
  IN  SelectSeq(text, Keep)

\* re.sub(r'\x1b\[[0-9;]*[A-Za-z](?<!m)', '', text) of print
StripNonSgr(text) ==
  LET Keep(u) == u \notin CsiUnits
  IN  SelectSeq(text, Keep)

\* _is_non_printable_only; "BS" stands for the backspace character
IsNonPrintableOnly(text) ==
  LET Blank(u)   == u \in {" ", "\t", "\n", "\r"}
      Control(u) == u \in {"\r", "BS", "\t"}
  IN  \/ \A i \in 1..Len(text) : Blank(text[i])
      \/ \A i \in 1..Len(text) : text[i] = "\n" \/ Control(text[i])

\* str.lower of one unit
LowerUnit(u) ==
  CASE u = "X" -> "x" [] u = "Y" -> "y" [] u = "T" -> "t" [] u = "S" -> "s"
    [] u = "Done." -> "done." [] u = "LOGTEEHTML_FOOTER" -> "logteehtml_footer"
    [] OTHER -> u

\* the characters of a unit that is more than one run of like characters
Explode(u) ==
  CASE u = FOOTER_MARKER -> <<"<", "!", "-", "-", " ", "LOGTEEHTML_FOOTER", " ", "-", "-", ">">>
    [] u = "Done."       -> <<"Done", ".">>
    [] u = "done."       -> <<"done", ".">>
    [] OTHER             -> <<u>>

RECURSIVE ExplodeAll(_)
ExplodeAll(s) ==
  IF Len(s) = 0 THEN <<>> ELSE Explode(s[1]) \o ExplodeAll(Tail(s))

\* units made of characters of [a-z0-9_-] only
SlugAllowed(u) ==
  u \in {"a", "b", "r", "s", "t", "x", "y", "p", "done", "logteehtml_footer", "-", "_", "7"}

\* consecutive '-' collapsed into one
RECURSIVE CollapseDashes(_)
CollapseDashes(s) ==
  IF Len(s) < 2 THEN s
  ELSE IF s[1] = "-" /\ s[2] = "-" THEN CollapseDashes(Tail(s))
  ELSE <<s[1]>> \o CollapseDashes(Tail(s))

\* str.strip("-")
RECURSIVE StripDashes(_)
StripDashes(s) ==
  IF Len(s) = 0 THEN s
  ELSE IF s[1] = "-" THEN StripDashes(Tail(s))
  ELSE IF s[Len(s)] = "-" THEN StripDashes(SubSeq(s, 1, Len(s) - 1))
  ELSE s

\* str.lower of a name, character by character (line 25)
Lowered(name) ==
  [i \in 1..Len(ExplodeAll(name)) |-> LowerUnit(ExplodeAll(name)[i])]

\* re.sub(r"[^a-z0-9_-]+", "-", s): each run of other characters becomes
\* one '-' (line 26)
RECURSIVE SlugReplaceRuns(_)
SlugReplaceRuns(s) ==
  IF Len(s) = 0 THEN s
  ELSE IF SlugAllowed(s[1]) THEN <<s[1]>> \o SlugReplaceRuns(Tail(s))
  ELSE IF Len(s) >= 2 /\ ~SlugAllowed(s[2]) THEN SlugReplaceRuns(Tail(s))
  ELSE <<"-">> \o SlugReplaceRuns(Tail(s))

\* the derivation without line 27: the '-' of the name and of the
\* replacement are kept as they are
SlugifyKeepsDashes(name) ==
  LET slug == ConcatStr(StripDashes(SlugReplaceRuns(Lowered(name))))
  IN  IF slug = "" THEN "anchor" ELSE slug

\* _slugify
Slugify(name) ==
  LET slug == ConcatStr(StripDashes(CollapseDashes(SlugReplaceRuns(Lowered(name)))))
  IN  IF slug = "" THEN "anchor" ELSE slug

-----------------------------------------------------------------------------
(* The SGR state machine *)

NoStyle == [bold |-> FALSE, dim |-> FALSE, underline |-> FALSE,
            fg_color |-> None, bg_color |-> None]

Palette == <<"#000000", "#aa0000", "#00aa00", "#aa5500",
             "#0000aa", "#aa00aa", "#00aaaa", "#aaaaaa">>

BrightPalette == <<"#555555", "#ff5555", "#55ff55", "#ffff55",
                   "#5555ff", "#ff55ff", "#55ffff", "#ffffff">>

\* _ANSI_COLOR_MAP.get(code)
AnsiColorMap(code) ==
  CASE code \in 30..37   -> Palette[code - 29]
    [] code \in 90..97   -> BrightPalette[code - 89]
    [] code \in 40..47   -> Palette[code - 39]
    [] code \in 100..107 -> BrightPalette[code - 99]
    [] OTHER             -> None

\* the condition "some attribute is active" of lines 222, 237 and 306
AnsiActive(st) ==
  st.fg_color # None \/ st.bg_color # None \/ st.bold \/ st.dim \/ st.underline

\* the styles list of lines 223-233 and 281-291
Styles(st) ==
  (IF st.bold THEN <<"font-weight:700">> ELSE <<>>)
  \o (IF st.dim THEN <<"opacity:0.7">> ELSE <<>>)
  \o (IF st.underline THEN <<"text-decoration:underline">> ELSE <<>>)
  \o (IF st.fg_color # None THEN <<"color:" \o st.fg_color>> ELSE <<>>)
  \o (IF st.bg_color # None THEN <<"background-color:" \o st.bg_color>> ELSE <<>>)

SpanOpenTag(st) == "<span style=\"" \o JoinStr(Styles(st), ";") \o "\">"

\* every style a state can hold, and the span tags they render to
AllStyles ==
  [bold : BOOLEAN, dim : BOOLEAN, underline : BOOLEAN,
   fg_color : {None} \cup {Palette[i] : i \in 1..8} \cup {BrightPalette[i] : i \in 1..8},
   bg_color : {None} \cup {Palette[i] : i \in 1..8} \cup {BrightPalette[i] : i \in 1..8}]

SpanOpenTags == { SpanOpenTag(st) : st \in { x \in AllStyles : AnsiActive(x) } }

\* a faulty code table: code 2 is not known, and code 3 sets underline
ApplyCodeOtherTable(c, code) ==
  CASE code = 0 ->
         [st |-> NoStyle, span_open |-> FALSE,
          out |-> IF c.span_open THEN Append(c.out, "</span>") ELSE c.out]
    [] code = 1 -> [c EXCEPT !.st.bold = TRUE]
    [] code \in {3, 4} -> [c EXCEPT !.st.underline = TRUE]
    [] code \in 30..37 \cup 90..97   -> [c EXCEPT !.st.fg_color = AnsiColorMap(code)]
    [] code \in 40..47 \cup 100..107 -> [c EXCEPT !.st.bg_color = AnsiColorMap(code)]
    [] OTHER -> c

\* one SGR code applied (lines 249-274); c is [st, span_open, out]
ApplyCode(c, code) ==
  CASE code = 0 ->
         [st |-> NoStyle, span_open |-> FALSE,
          out |-> IF c.span_open THEN Append(c.out, "</span>") ELSE c.out]
    [] code = 1 -> [c EXCEPT !.st.bold = TRUE]
    [] code = 2 -> [c EXCEPT !.st.dim = TRUE]
    [] code = 4 -> [c EXCEPT !.st.underline = TRUE]
    [] code \in 30..37 \cup 90..97   -> [c EXCEPT !.st.fg_color = AnsiColorMap(code)]
    [] code \in 40..47 \cup 100..107 -> [c EXCEPT !.st.bg_color = AnsiColorMap(code)]
    [] OTHER -> c

RECURSIVE ApplyCodes(_, _)
ApplyCodes(c, codes) ==
  IF Len(codes) = 0 THEN c ELSE ApplyCodes(ApplyCode(c, codes[1]), Tail(codes))

\* one part of the split text (the loop body, lines 239-299)
AnsiPart(c, p) ==
  IF p \in SgrUnits
  THEN LET codes  == IF Len(SgrCodes(p)) = 0 THEN <<0>> ELSE SgrCodes(p)
           c1     == ApplyCodes(c, codes)
           closed == IF c1.span_open THEN Append(c1.out, "</span>") ELSE c1.out
       IN  IF Len(Styles(c1.st)) > 0
           THEN [st |-> c1.st, span_open |-> TRUE, out |-> Append(closed, SpanOpenTag(c1.st))]
           ELSE [st |-> c1.st, span_open |-> FALSE, out |-> closed]
  ELSE [c EXCEPT !.out = Append(c.out, EscapeUnit(p))]

RECURSIVE AnsiParts(_, _)
AnsiParts(c, parts) ==
  IF Len(parts) = 0 THEN c ELSE AnsiParts(AnsiPart(c, parts[1]), Tail(parts))

\* _ansi_to_html_stateful: [out |-> the markup, st |-> the new self._ansi_state]
AnsiToHtmlStateful(st, text) ==
  LET start == [st |-> st, span_open |-> AnsiActive(st),
                out |-> IF AnsiActive(st) THEN <<SpanOpenTag(st)>> ELSE <<>>]
      done  == AnsiParts(start, text)
  IN  [out |-> done.out, st |-> done.st]

\* a faulty _close_ansi_spans: the closing tag is returned, the style state
\* is not reset
CloseAnsiSpansKeep(st) ==
  [out |-> IF AnsiActive(st) THEN <<"</span>">> ELSE <<>>, st |-> st]

\* _close_ansi_spans: [out |-> '</span>' or '', st |-> the new self._ansi_state]
CloseAnsiSpans(st) ==
  IF AnsiActive(st) THEN [out |-> <<"</span>">>, st |-> NoStyle]
  ELSE [out |-> <<>>, st |-> st]

-----------------------------------------------------------------------------
(* The writer as one value.  The operations below are functions from this  *)
(* value to this value; the actions at the end apply them to the           *)
(* variables.  raised: an exception is propagating (the rest of the call   *)
(* is skipped).  low, route, rendered: what the call did, for the          *)
(* properties: the lowest offset a write started at (0: none), the branch  *)
(* print took, the markup print produced.                                  *)

Cur ==
  [fh |-> fh, cache |-> markerPosCache, lastType |-> lastChunkType,
   lastBase |-> lastChunkBase, ansi |-> ansiState, sid |-> currentSectionId,
   out |-> origStdout, err |-> origStderr, fd |-> realFd,
   raised |-> FALSE, low |-> 0, route |-> "none", rendered |-> <<>>]

-----------------------------------------------------------------------------
(* Low-level helpers.  A method is written as a chain of definitions, one *)
(* per stage, each taking what the stage before it computed.               *)

\* the probe of lines 173-177 succeeds
CacheValid(L) ==
  L.cache # 0 /\ L.cache <= Len(L.fh) /\ L.fh[L.cache] = FOOTER_MARKER

\* the value _find_marker returns (0: it raises RuntimeError).  The 32 KiB
\* tail scan and the whole-file scan find the same last occurrence.
MarkerPos(L) ==
  IF CacheValid(L) THEN L.cache
  ELSE RFind(L.fh, <<FOOTER_MARKER>>, Len(L.fh))

\* a faulty scan: a marker that was not found is not reported
RescannedSilent(L, idx) == [L EXCEPT !.cache = idx]

\* lines 178-196: idx is what the scan found
Rescanned(L, idx) ==
  IF idx = 0 THEN [L EXCEPT !.raised = TRUE] ELSE [L EXCEPT !.cache = idx]

\* the effect of _find_marker on the writer; its value is then L.cache
FindMarker(L) ==
  IF CacheValid(L) THEN L
  ELSE Rescanned(L, RFind(L.fh, <<FOOTER_MARKER>>, Len(L.fh)))

\* a faulty _read_footer_tail: the marker's length is taken one too long
ReadFooterTailShort(L, marker_pos) == SubSeq(L.fh, marker_pos + 2, Len(L.fh))

\* _read_footer_tail
ReadFooterTail(L, marker_pos) == SubSeq(L.fh, marker_pos + 1, Len(L.fh))

\* _rewrite_at: seek(pos), write(new_bytes), truncate()
RewriteAt(L, pos, new_bytes) ==
  [L EXCEPT !.fh  = SubSeq(L.fh, 1, pos - 1) \o new_bytes,
            !.low = IF L.low = 0 THEN pos ELSE Min({L.low, pos})]

\* the number of bytes of a unit that is written to the file as it stands
ByteLen(u) == Len(u)

\* the size in bytes of a sequence of units
RECURSIVE ByteSize(_)
ByteSize(f) == IF Len(f) = 0 THEN 0 ELSE ByteLen(f[1]) + ByteSize(Tail(f))

\* the byte offset (from 0, as seek counts) at which unit i of f starts
ByteOffset(f, i) == ByteSize(SubSeq(f, 1, i - 1))

\* what is left of a unit that a write starting inside it has cut
Torn(u) == "(cut) " \o u

\* the bytes a seek beyond the end of the file followed by a write leaves
\* between the old end and the written bytes
ZeroBytes == "(zero bytes)"

\* _rewrite_at (and lines 454-464) with pos a byte offset that was computed
\* on an earlier content of the file: seek(pos), write(new_bytes), truncate()
RewriteAtByte(f, pos, new_bytes) ==
  IF pos > ByteSize(f) THEN f \o <<ZeroBytes>> \o new_bytes
  ELSE IF pos = ByteSize(f) THEN f \o new_bytes
  ELSE LET i == CHOOSE j \in 1..Len(f) :
                  ByteOffset(f, j) <= pos /\ pos < ByteOffset(f, j + 1)
       IN  IF ByteOffset(f, i) = pos THEN SubSeq(f, 1, i - 1) \o new_bytes
           ELSE SubSeq(f, 1, i - 1) \o <<Torn(f[i])>> \o new_bytes

\* lines 621-625 (and 410-413, 434-437, 638-641): L1 is the writer after a
\* fresh marker lookup
SpliceAtMarker(L1, b) ==
  IF L1.raised THEN L1
  ELSE [RewriteAt(L1, L1.cache, b \o <<FOOTER_MARKER>> \o ReadFooterTail(L1, L1.cache))
          EXCEPT !.cache = L1.cache + Len(b)]

\* the body shared by _insert_bytes and the fallbacks of lines 408-413,
\* 432-437 and 636-641: forget the cache, find the marker, splice before it
SpliceBeforeMarker(L, b) == SpliceAtMarker(FindMarker([L EXCEPT !.cache = 0]), b)

\* _insert_bytes
InsertBytes(L, b) == IF L.raised THEN L ELSE SpliceBeforeMarker(L, b)

\* _find_pos_of_last (the 512 KiB window is larger than any file here)
FindPosOfLast(L, pattern, before_pos) == RFind(L.fh, pattern, before_pos - 1)

\* _find_last_chunk_start, given the marker position it looked up
FindLastChunkStart(L, chunk_type, marker_pos) ==
  RFind(L.fh, <<"<div class=\"" \o chunk_type \o "\">">>, marker_pos - 1)

\* lines 634-649: L1 after the marker lookup, pos_closer the closer found
InsertAtCloser(L1, inner, pos_closer) ==
  IF pos_closer = 0 THEN SpliceBeforeMarker(L1, inner)
  ELSE FindMarker(RewriteAt(L1, pos_closer,
         inner \o CHUNK_CLOSER \o <<FOOTER_MARKER>> \o ReadFooterTail(L1, L1.cache)))

\* lines 631-633
InsertAfterLookup(L1, inner) ==
  IF L1.raised THEN L1
  ELSE InsertAtCloser(L1, inner, FindPosOfLast(L1, CHUNK_CLOSER, L1.cache))

\* _insert_before_closer
InsertBeforeCloser(L, inner) ==
  IF L.raised THEN L ELSE InsertAfterLookup(FindMarker(L), inner)

\* a faulty replacement: the segment becomes a new last line and the old
\* last line stays
ReplaceLastLineAppends(L1, text, last_start, chunk_text, pre_at, pre_end) ==
  LET segments    == Split(text, "\r")
      new_segment == EscapeHtml(StripAnsi(segments[Len(segments)]))
      new_chunk   == SubSeq(chunk_text, 1, pre_end - 1) \o <<"\n">> \o new_segment
                       \o SubSeq(chunk_text, pre_end, Len(chunk_text))
  IN  [FindMarker(RewriteAt(L1, last_start,
         new_chunk \o <<FOOTER_MARKER>> \o ReadFooterTail(L1, L1.cache)))
         EXCEPT !.route = "cr"]

\* lines 440-466: the last line of the first <pre>...</pre> of chunk_text
\* (pre_at, pre_end: where re.search found it) becomes the last segment
ReplaceLastLine(L1, text, last_start, chunk_text, pre_at, pre_end) ==
  LET segments    == Split(text, "\r")
      new_segment == EscapeHtml(StripAnsi(segments[Len(segments)]))
      lines       == Split(SubSeq(chunk_text, pre_at + 1, pre_end - 1), "\n")
      new_pre     == Join([lines EXCEPT ![Len(lines)] = new_segment], "\n")
      new_chunk   == SubSeq(chunk_text, 1, pre_at) \o new_pre
                       \o SubSeq(chunk_text, pre_end, Len(chunk_text))
  IN  [FindMarker(RewriteAt(L1, last_start,
         new_chunk \o <<FOOTER_MARKER>> \o ReadFooterTail(L1, L1.cache)))
         EXCEPT !.route = "cr"]

\* lines 426-438: re.search(r'<pre>(.*?)</pre>', chunk_text, flags=re.DOTALL)
RewriteChunk(L1, text, last_start, chunk_text, pre_at) ==
  LET pre_end == IF pre_at = 0 THEN 0 ELSE FindFrom(chunk_text, "</pre>", pre_at + 1)
      details == <<"<details><summary>ANSI cursor</summary>", "<pre>">>
                   \o EscapeHtml(text) \o <<"</pre>", "</details>", "\n">>
  IN  IF pre_at = 0 \/ pre_end = 0
      THEN [SpliceBeforeMarker(L1, details) EXCEPT !.route = "cr-details"]
      ELSE ReplaceLastLine(L1, text, last_start, chunk_text, pre_at, pre_end)

\* lines 405-423: last_start is what _find_last_chunk_start returned
CarriageReturnAt(L1, text, chunk_type, last_start) ==
  LET fallback == <<"<div class=\"" \o chunk_type \o "\">", "<pre>">>
                    \o EscapeHtml(StripAnsi(text)) \o CHUNK_CLOSER
  IN  IF last_start = 0
      THEN [SpliceBeforeMarker(L1, fallback) EXCEPT !.route = "cr-new"]
      ELSE RewriteChunk(L1, text, last_start,
             SubSeq(L1.fh, last_start, L1.cache - 1),
             FindFrom(SubSeq(L1.fh, last_start, L1.cache - 1), "<pre>", 1))

\* lines 403-404
CarriageReturnAfterLookup(L1, text, chunk_type) ==
  IF L1.raised THEN L1
  ELSE CarriageReturnAt(L1, text, chunk_type,
         FindLastChunkStart(L1, IF chunk_type = "stderr" THEN "stderr" ELSE "stdout",
                            L1.cache))

\* _apply_carriage_return
ApplyCarriageReturn(L, text, chunk_type) ==
  IF L.raised THEN L ELSE CarriageReturnAfterLookup(FindMarker(L), text, chunk_type)

-----------------------------------------------------------------------------
(* Public API *)

\* lines 367-369: c is what _close_ansi_spans returned
EndChunkClosed(L1, c) ==
  IF Len(c.out) > 0 THEN InsertBytes([L1 EXCEPT !.ansi = c.st], c.out)
  ELSE [L1 EXCEPT !.ansi = c.st]

\* a faulty end_chunk: the span is closed but the open block stays the
\* merge target
EndChunkKeepsBlock(L) ==
  IF L.raised THEN L ELSE EndChunkClosed(L, CloseAnsiSpans(L.ansi))

\* end_chunk
EndChunk(L) ==
  IF L.raised THEN L
  ELSE EndChunkClosed([L EXCEPT !.lastType = None, !.lastBase = None],
                      CloseAnsiSpans(L.ansi))

\* the opening tag of line 321
SectionHeaderOpen(sid) == "<h1 id=\"" \o sid \o "\">"

\* line 324
StartDone(L2, sid) == IF L2.raised THEN L2 ELSE [L2 EXCEPT !.sid = sid]

\* lines 320-322
StartHeader(L1, section_name, sid) ==
  StartDone(InsertBytes(L1, <<SectionHeaderOpen(sid)>> \o section_name
                              \o <<"</h1>", "\n">>), sid)

\* start
Start(L, section_name) == StartHeader(EndChunk(L), section_name, Slugify(section_name))

\* what anchor sends to the terminal: one logger-written string
LinkLine(anchor_text, anchor_name) ==
  [by |-> "logger",
   s  |-> <<"[(link)">> \o anchor_text \o <<"]( file://", "URL#" \o anchor_name, " )", "\n">>]

\* lines 340-356.  env tells where the link goes: "tty": sys.__stdout__ has
\* a descriptor and is the stream the session found in sys.stdout;
\* "redirected": it has a descriptor, and sys.stdout was another stream;
\* "nofd": sys.__stdout__ is None or has no fileno.
AnchorLink(L2, anchor_text, name, print_link) ==
  IF L2.raised \/ ~print_link THEN L2
  ELSE CASE env = "tty" ->
              [L2 EXCEPT !.out = @ \o <<[by |-> "logger", s |-> <<"\n">>],
                                        LinkLine(anchor_text, name)>>]
         [] env = "redirected" ->
              [L2 EXCEPT !.fd = @ \o <<[by |-> "logger", s |-> <<"\n">>],
                                       LinkLine(anchor_text, name)>>]
         [] OTHER ->
              [L2 EXCEPT !.out = Append(@, LinkLine(anchor_text, name))]

\* lines 333-339.  datetime.now().isoformat() is written as TS: it only
\* fills attribute values.
AnchorHeader(L1, anchor_text, name, print_link) ==
  AnchorLink(
    InsertBytes(L1,
      <<"<h2 id=\"" \o name \o "\" data-section=\""
          \o (IF L1.sid = "unset" THEN name ELSE L1.sid)
          \o "\" data-timestamp=\"TS\" title=\"TS\">">>
        \o EscapeHtml(anchor_text) \o <<"</h2>", "\n">>),
    anchor_text, name, print_link)

\* anchor.  uuid4().hex[:6] is written as UUID6.
Anchor(L, anchor_text, anchor_name, print_link) ==
  AnchorHeader(EndChunk(L), anchor_text,
               IF anchor_name = None
               THEN Slugify(anchor_text) \o "-" \o "UUID6" ELSE anchor_name,
               print_link)

\* _MARKDOWN_HEADING_RE.match(line).group(2), <<>> when there is no match
MarkdownTitle(line) ==
  LET n     == Len(line)
      nonws == { i \in 2..n : ~IsSpace(line[i]) }
  IN  IF n < 3 \/ HashLen(line[1]) < 3 \/ ~IsSpace(line[2]) THEN <<>>
      ELSE IF nonws = {} THEN <<line[n]>>
      ELSE SubSeq(line, Min(nonws), Max(nonws))

\* _RICH_PANEL_TOP_RE.match(line).group(1), <<>> when there is no match
PanelTitle(line) ==
  LET n     == Len(line)
      ends  == { i \in 2..n : ~IsSpace(line[i]) }
      e     == Max(ends)
      inner == { i \in 2..(e - 1) : line[i] # PanelDash }
      d     == Max(inner)
      nonws == { i \in 2..d : ~IsSpace(line[i]) }
  IN  IF n < 2 \/ line[1] # PanelTopLeft \/ ends = {} THEN <<>>
      ELSE IF line[e] # PanelTopRight \/ inner = {} \/ nonws = {} THEN <<>>
      ELSE SubSeq(line, Min(nonws), Max(nonws))

RECURSIVE SumLen(_)
SumLen(line) == IF Len(line) = 0 THEN 0 ELSE UnitLen(line[1]) + SumLen(Tail(line))

\* the title the auto-anchor scan takes from one line (lines 478-494)
LineTitle(raw_line) ==
  IF SumLen(raw_line) > MaxAnchorLineLen THEN <<>>
  ELSE IF Len(raw_line) > 0 /\ raw_line[1] = PanelTopLeft THEN PanelTitle(raw_line)
  ELSE MarkdownTitle(raw_line)

\* a pre-check that looks at the start of the text only
AnchorPreCheckStartOnly(text) ==
  Len(text) > 0 /\ (text[1] = PanelTopLeft \/ HashLen(text[1]) >= 3)

\* the fast pre-check of line 476
AnchorPreCheck(text) ==
  LET Opens(u) == u = PanelTopLeft \/ HashLen(u) >= 3
  IN  /\ Len(text) > 0
      /\ \/ Opens(text[1])
         \/ \E i \in 1..(Len(text) - 1) : text[i] = "\n" /\ Opens(text[i + 1])

\* the non-empty titles of the lines, in order
TitlesOf(lines) ==
  LET Some(t) == Len(t) > 0
  IN  SelectSeq([i \in 1..Len(lines) |-> LineTitle(lines[i])], Some)

\* the titles print anchors, in order (lines 474-494)
AnchorTitles(text) ==
  IF AnchorPreCheck(text) THEN TitlesOf(SplitLines(text)) ELSE <<>>

RECURSIVE AnchorAll(_, _)
AnchorAll(L, titles) ==
  IF Len(titles) = 0 \/ L.raised THEN L
  ELSE AnchorAll(Anchor(L, titles[1], None, FALSE), Tail(titles))

\* lines 496-506: the kind after the scan for non-m escape sequences
Classified(text, kind) ==
  IF \E i \in 1..Len(text) : text[i] \in CsiUnits THEN "ansi-cursor" ELSE kind

\* the condition of lines 514-517
LeavesCursorMode(L1, text) ==
  /\ L1.lastType = "ansi-cursor"
  /\ Len(text) > 0 /\ text[Len(text)] = "\n"
  /\ \/ ~\E i \in 1..Len(text) : text[i] \in SgrUnits \cup CsiUnits
     \/ ~\E i \in 1..Len(text) : text[i] \in CsiUnits
  /\ ~(Contains(text, "\r") \/ Contains(text, "BS"))

\* chunk_type after lines 509-520
ChunkType(L1, text, kind) ==
  IF LeavesCursorMode(L1, text) THEN "stdout"
  ELSE IF L1.lastType = "ansi-cursor" THEN "ansi-cursor"
  ELSE Classified(text, kind)

\* lines 523-530: [out |-> escaped, st |-> self._ansi_state afterwards]
Convert(st, text, chunk_type) ==
  IF HasEscIntro(text)
  THEN AnsiToHtmlStateful(st, IF chunk_type = "ansi-cursor" THEN StripNonSgr(text) ELSE text)
  ELSE [out |-> EscapeHtml(text), st |-> st]

\* a faulty end of print: the kind of the new block is not recorded as the
\* mergeable base
PrintNewForgets(L4, chunk_type) ==
  IF L4.raised THEN L4
  ELSE [L4 EXCEPT !.lastType = chunk_type, !.route = "new"]

\* lines 550-551
PrintNewDone(L4, chunk_type) ==
  IF L4.raised THEN L4
  ELSE [L4 EXCEPT !.lastType = chunk_type, !.lastBase = chunk_type, !.route = "new"]

\* a faulty merge decision: any open block is extended, whatever its kind
PrintPlaceAnyOpen(L3, text, chunk_type, escaped) ==
  IF L3.lastBase # None
    THEN [InsertBeforeCloser(L3, escaped) EXCEPT !.route = "merge"]
  ELSE PrintNewDone(
         InsertBytes(L3, <<"<div class=\"" \o chunk_type \o "\">", "<pre>">>
                           \o escaped \o CHUNK_CLOSER),
         chunk_type)

\* lines 532-551: L3 holds the converted style state, escaped the markup.
\* chunk_type is one of the three mergeable kinds on every path here.
PrintPlace(L3, text, chunk_type, escaped) ==
  IF Contains(text, "\r") /\ L3.lastBase = chunk_type
    THEN ApplyCarriageReturn(L3, text, chunk_type)
  ELSE IF L3.lastBase = chunk_type
    THEN [InsertBeforeCloser(L3, escaped) EXCEPT !.route = "merge"]
  ELSE PrintNewDone(
         InsertBytes(L3, <<"<div class=\"" \o chunk_type \o "\">", "<pre>">>
                           \o escaped \o CHUNK_CLOSER),
         chunk_type)

\* lines 522-530
PrintConverted(L2, text, chunk_type, conv) ==
  PrintPlace([L2 EXCEPT !.ansi = conv.st, !.rendered = conv.out],
             text, chunk_type, conv.out)

\* lines 508-520
PrintClassified(L2, text, chunk_type) ==
  PrintConverted(L2, text, chunk_type, Convert(L2.ansi, text, chunk_type))

\* lines 495-520: L1 is the writer after the auto-anchor scan
PrintAfterAnchors(L1, text, kind) ==
  IF L1.raised THEN L1
  ELSE PrintClassified(
         IF LeavesCursorMode(L1, text)
         THEN [L1 EXCEPT !.lastType = None, !.lastBase = None] ELSE L1,
         text, ChunkType(L1, text, kind))

\* print
LogPrint(L, text, kind) == PrintAfterAnchors(AnchorAll(L, AnchorTitles(text)), text, kind)

\* the branch print takes at lines 535-547, read off _last_chunk_base
PrintBranch(L3, text, chunk_type) ==
  IF Contains(text, "\r") /\ L3.lastBase = chunk_type THEN "cr"
  ELSE IF L3.lastBase = chunk_type THEN "merge"
  ELSE "new"

\* lines 495-533 of a call without heading lines, up to the choice of the
\* branch: the writer afterwards, and the locals the call goes on with
PrintDecided(L2, text, kind, chunk_type, conv) ==
  [w    |-> [L2 EXCEPT !.ansi = conv.st, !.rendered = conv.out],
   call |-> [pc |-> "decided", text |-> text, kind |-> kind,
             chunk_type |-> chunk_type, escaped |-> conv.out,
             branch |-> PrintBranch(L2, text, chunk_type)]]

PrintDecide(L, text, kind) ==
  PrintDecided(IF LeavesCursorMode(L, text)
               THEN [L EXCEPT !.lastType = None, !.lastBase = None] ELSE L,
               text, kind, ChunkType(L, text, kind),
               Convert(L.ansi, text, ChunkType(L, text, kind)))

\* the one call print makes under self._file_lock (lines 536, 541/545, 549)
PrintSplice(L, c) ==
  IF c.branch = "cr" THEN ApplyCarriageReturn(L, c.text, c.chunk_type)
  ELSE IF c.branch = "merge"
    THEN [InsertBeforeCloser(L, c.escaped) EXCEPT !.route = "merge"]
  ELSE InsertBytes(L, <<"<div class=\"" \o c.chunk_type \o "\">", "<pre>">>
                        \o c.escaped \o CHUNK_CLOSER)

\* lines 566-570
InjectWrapper(L3, html_content) ==
  FindMarker(InsertBytes(L3, <<"<div class=\"html-injection\">">> \o html_content
                               \o <<"</div>", "\n">>))

\* lines 561-564; with_anchor: anchor_text is not None
InjectAnchor(L2, html_content, with_anchor, anchor_text, print_link) ==
  InjectWrapper(
    IF with_anchor
    THEN Anchor(L2, anchor_text, Slugify(anchor_text) \o "-" \o "UUID6", print_link)
    ELSE L2,
    html_content)

\* inject_html
InjectHtml(L, html_content, with_anchor, anchor_text, print_link) ==
  InjectAnchor(EndChunkClosed([L EXCEPT !.lastType = None, !.lastBase = None],
                              CloseAnsiSpans(L.ansi)),
               html_content, with_anchor, anchor_text, print_link)

\* lines 66-69: the write reached the terminal; the logger sees it unless it
\* looks like a link line
ProxyForward(L1, chunk_type, s) ==
  IF Len(s) > 0 /\ s[1] = "[(link)" /\ Contains(s, "](file://") THEN L1
  ELSE LogPrint(L1, s, chunk_type)

\* a faulty _StreamProxy.write: the link-line test comes first, so such a
\* string is not forwarded to the terminal either
ProxyWriteFiltered(L, chunk_type, s) ==
  IF Len(s) > 0 /\ s[1] = "[(link)" /\ Contains(s, "](file://") THEN L
  ELSE ProxyForward(IF chunk_type = "stdout"
                    THEN [L EXCEPT !.out = Append(@, [by |-> "program", s |-> s])]
                    ELSE [L EXCEPT !.err = Append(@, [by |-> "program", s |-> s])],
                    chunk_type, s)

\* _StreamProxy.write, for the proxy of stream kind chunk_type
ProxyWrite(L, chunk_type, s) ==
  ProxyForward(IF chunk_type = "stdout"
               THEN [L EXCEPT !.out = Append(@, [by |-> "program", s |-> s])]
               ELSE [L EXCEPT !.err = Append(@, [by |-> "program", s |-> s])],
               chunk_type, s)

\* sys.stdout.write(s) / sys.stderr.write(s): the stream the name is bound to
\* takes the string (lines 143-144 bind the proxies, lines 164-165 the
\* original streams)
StreamWrite(L, chunk_type, s) ==
  IF (IF chunk_type = "stdout" THEN sysStdout ELSE sysStderr) = "proxy"
  THEN ProxyWrite(L, chunk_type, s)
  ELSE IF chunk_type = "stdout"
       THEN [L EXCEPT !.out = Append(@, [by |-> "program", s |-> s])]
       ELSE [L EXCEPT !.err = Append(@, [by |-> "program", s |-> s])]

\* the first text __exit__ prints when the with-body raised (line 157)
ExceptionBanner == <<"\n", "--- Unhandled Exception (will be re-raised) ---", "\n">>

\* lines 158-159: self.print(line, chunk_type='stderr') for each line, until
\* one raises
RECURSIVE PrintLines(_, _)
PrintLines(L, lines) ==
  IF Len(lines) = 0 \/ L.raised THEN L
  ELSE PrintLines(LogPrint(L, lines[1], "stderr"), Tail(lines))

\* lines 151-162.  traceback: what traceback.format_exception returns for the
\* exception of the with-body; <<>>: exc_type is None.  An exception raised
\* while logging is swallowed.
ExitLogged(L, traceback) ==
  IF Len(traceback) = 0 THEN L
  ELSE [PrintLines([L EXCEPT !.lastType = None, !.lastBase = None],
                   <<ExceptionBanner>> \o traceback)
          EXCEPT !.raised = FALSE]

\* an __exit__ that leaves the proxies installed
ExitStreamsKept == [out |-> "proxy", err |-> "proxy"]

\* lines 164-165: what sys.stdout and sys.stderr are bound to after __exit__
ExitStreams == [out |-> "orig", err |-> "orig"]

-----------------------------------------------------------------------------
(* Observation of the document *)

DivOpen(kind) == "<div class=\"" \o kind \o "\">"

\* offsets of the opening tags of the blocks of a kind
BlockStarts(f, kind) == { i \in 1..Len(f) : f[i] = DivOpen(kind) }

NumBlocks(f, kind) == Cardinality(BlockStarts(f, kind))

\* the content of the block that opens at offset i: between <pre> and </pre>
BlockContent(f, i) ==
  LET close == FindFrom(f, "</pre>", i + 2)
  IN  IF close = 0 THEN SubSeq(f, i + 2, Len(f)) ELSE SubSeq(f, i + 2, close - 1)

\* the content of the last block of a kind
LastBlockContent(f, kind) == BlockContent(f, Max(BlockStarts(f, kind)))

MarkerOffsets(f) == { i \in 1..Len(f) : f[i] = FOOTER_MARKER }

\* span tags opened and not closed in f
OpenSpans(f) ==
  Cardinality({ i \in 1..Len(f) : f[i] \in SpanOpenTags })
    - Cardinality({ i \in 1..Len(f) : f[i] = "</span>" })

IsSuffix(t, s) ==
  Len(t) <= Len(s) /\ SubSeq(s, Len(s) - Len(t) + 1, Len(s)) = t

-----------------------------------------------------------------------------
(* The run of consecutive prints of one mergeable kind *)

NoRun == [kind |-> None, n |-> 0, rendered |-> <<>>, before |-> 0,
          cursorAtStart |-> FALSE, openAtStart |-> FALSE]

\* a print of a mergeable kind without carriage return, non-SGR escape or
\* auto-anchor line
PlainPrint(text, kind) ==
  /\ kind \in {"stdout", "stderr"}
  /\ ~Contains(text, "\r")
  /\ ~\E i \in 1..Len(text) : text[i] \in CsiUnits
  /\ AnchorTitles(text) = <<>>

RunAfter(L, text, kind) ==
  IF ~PlainPrint(text, kind) THEN NoRun
  ELSE IF run.n > 0 /\ run.kind = kind
    THEN [run EXCEPT !.n = @ + 1, !.rendered = @ \o L.rendered]
  ELSE [kind |-> kind, n |-> 1, rendered |-> L.rendered,
        before |-> NumBlocks(fh, kind),
        cursorAtStart |-> lastChunkType = "ansi-cursor",
        openAtStart |-> lastChunkBase = kind]

-----------------------------------------------------------------------------
(* Actions *)

Envs == {"tty", "redirected", "nofd"}

NoOp == [name |-> "init", text |-> <<>>, kind |-> None, low |-> 0,
         route |-> "none", rendered |-> <<>>, raised |-> FALSE]

\* what pre keeps of the writer
Snapshot(L) ==
  [fh |-> L.fh, lastType |-> L.lastType, lastBase |-> L.lastBase, ansi |-> L.ansi]

\* the processes that write to the document, each through its own handle
Procs == {"p1", "p2"}

\* a process that has not called print yet
Idle == [pc |-> "idle", text |-> <<>>, kind |-> None, pos |-> 0, bytes |-> <<>>]

\* the threads that print besides the main thread
Threads == {"t1", "t2"}

\* a thread that has not called print yet
Ready ==
  [pc |-> "ready", text |-> <<>>, kind |-> None, chunk_type |-> None,
   escaped |-> <<>>, branch |-> None]

\* the state __enter__ leaves: the template written, the marker located
InitIn(envs) ==
  /\ fh = Template
  /\ markerPosCache = Len(TemplateHeader) + 1
  /\ lastChunkType = None
  /\ lastChunkBase = None
  /\ ansiState = NoStyle
  /\ currentSectionId = "unset"
  /\ origStdout = <<>>
  /\ origStderr = <<>>
  /\ realFd = <<>>
  /\ env \in envs
  /\ written = [stdout |-> <<>>, stderr |-> <<>>]
  /\ sysStdout = "proxy"
  /\ sysStderr = "proxy"
  /\ fhClosed = FALSE
  /\ thr = [t \in Threads |-> Ready]
  /\ fork = Cur
  /\ proc = [p \in Procs |-> Idle]
  /\ hist = <<>>
  /\ pre = [fh |-> Template, lastType |-> None, lastBase |-> None, ansi |-> NoStyle]
  /\ op = NoOp
  /\ run = NoRun
  /\ nops = 0

Init == InitIn({"tty"})

\* the writer's fields after a call that left the writer as L
CommitWriter(L, name, text, kind) ==
  /\ fh' = L.fh
  /\ markerPosCache' = L.cache
  /\ lastChunkType' = L.lastType
  /\ lastChunkBase' = L.lastBase
  /\ ansiState' = L.ansi
  /\ currentSectionId' = L.sid
  /\ origStdout' = L.out
  /\ origStderr' = L.err
  /\ realFd' = L.fd
  /\ env' = env
  /\ hist' = Append(hist, [name |-> name, text |-> text, kind |-> kind])
  /\ pre' = Snapshot(Cur)
  /\ op' = [name |-> name, text |-> text, kind |-> kind, low |-> L.low,
            route |-> L.route, rendered |-> L.rendered, raised |-> L.raised]
  /\ nops' = nops + 1

\* the variables after a call, made while the session is open, that left the
\* writer as L
Commit(L, name, text, kind) ==
  /\ CommitWriter(L, name, text, kind)
  /\ UNCHANGED <<sysStdout, sysStderr, fhClosed, thr, fork, proc>>

\* the variables after a call that reached (or, route "none", skipped) print
CommitPrint(L, name, text, kind) ==
  /\ Commit(L, name, text, kind)
  /\ run' = IF L.route = "none" THEN run ELSE RunAfter(L, text, kind)

\* logger.print(text, chunk_type=kind)
PrintOp(texts, kinds) ==
  /\ nops < MaxOps
  /\ ~fhClosed
  /\ \E text \in texts, kind \in kinds :
       CommitPrint(LogPrint(Cur, text, kind), "print", text, kind)
  /\ UNCHANGED written

\* sys.stdout.write(s) / sys.stderr.write(s) by the program
WriteOp(texts, kinds) ==
  /\ nops < MaxOps
  /\ \E s \in texts, kind \in kinds :
       /\ CommitPrint(StreamWrite(Cur, kind, s), "write", s, kind)
       /\ written' = [written EXCEPT ![kind] = Append(@, s)]

\* logger.start(section_name)
StartOp(names) ==
  /\ nops < MaxOps
  /\ ~fhClosed
  /\ \E name \in names : Commit(Start(Cur, name), "start", name, None)
  /\ run' = NoRun
  /\ UNCHANGED written

\* logger.anchor(anchor_text, print_link=print_link)
AnchorOp(texts, links) ==
  /\ nops < MaxOps
  /\ ~fhClosed
  /\ \E text \in texts, print_link \in links :
       Commit(Anchor(Cur, text, None, print_link), "anchor", text,
              IF print_link THEN "link" ELSE "nolink")
  /\ run' = NoRun
  /\ UNCHANGED written

\* logger.inject_html(html), logger.inject_html(html, anchor_text, print_link=False)
InjectOp(htmls, anchors) ==
  /\ nops < MaxOps
  /\ ~fhClosed
  /\ \E html \in htmls, a \in anchors :
       Commit(InjectHtml(Cur, html, Len(a) > 0, a, FALSE), "inject_html", html, None)
  /\ run' = NoRun
  /\ UNCHANGED written

\* __exit__(exc_type, exc_val, exc_tb) at the end of the with-block
ExitOp(tracebacks) ==
  /\ nops < MaxOps
  /\ ~fhClosed
  /\ \E traceback \in tracebacks :
       CommitWriter(ExitLogged(Cur, traceback), "exit", <<>>,
                    IF Len(traceback) = 0 THEN "normal" ELSE "exception")
  /\ sysStdout' = ExitStreams.out
  /\ sysStderr' = ExitStreams.err
  /\ fhClosed' = TRUE
  /\ run' = NoRun
  /\ UNCHANGED <<written, thr, fork, proc>>

\* logger.end_chunk()
EndChunkOp ==
  /\ nops < MaxOps
  /\ ~fhClosed
  /\ Commit(EndChunk(Cur), "end_chunk", <<>>, None)
  /\ run' = NoRun
  /\ UNCHANGED written

-----------------------------------------------------------------------------
(* What the properties read off a state *)

Kinds == {"stdout", "stderr"}

\* the k-th last operation (0: the last one)
Past(k) == hist[Len(hist) - k]

IsPrintOf(h, text, kind) == h.name = "print" /\ h.text = text /\ h.kind = kind

HasCsi(text) == \E i \in 1..Len(text) : text[i] \in CsiUnits

\* the offset of the marker the writer works in front of
LastMarker(f) == Max(MarkerOffsets(f))

\* the bytes after that marker
FooterTailOf(f) == SubSeq(f, LastMarker(f) + 1, Len(f))

\* the last line of a block's content
LastLine(content) == Split(content, "\n")[Len(Split(content, "\n"))]

\* offsets of all mergeable blocks
AllBlockStarts(f) ==
  BlockStarts(f, "stdout") \cup BlockStarts(f, "stderr") \cup BlockStarts(f, "ansi-cursor")

NumSpanOpens(f) == Cardinality({ i \in 1..Len(f) : f[i] \in SpanOpenTags })

\* the file is the earlier file with one new block of kind k, holding the
\* rendered text, in front of the marker
NewBlockAppended(k) ==
  fh = SubSeq(pre.fh, 1, LastMarker(pre.fh) - 1)
         \o <<DivOpen(k), "<pre>">> \o op.rendered \o CHUNK_CLOSER
         \o SubSeq(pre.fh, LastMarker(pre.fh), Len(pre.fh))

\* the strings of a terminal stream, and who wrote them
Strings(stream) == [i \in 1..Len(stream) |-> stream[i].s]

ByProgram(e) == e.by = "program"

ByLogger(e) == e.by = "logger"

IsLinkAnchor(h) == h.name = "anchor" /\ h.kind = "link"

-----------------------------------------------------------------------------
(* The writer under every public operation *)

Texts ==
  { <<"a">>, <<"b", "\n">>, <<"ESC[31m", "r">>, <<"s", "ESC[0m">>,
    <<"X", "\r", "Y">>, <<"ESC[A">>, <<FOOTER_MARKER>> }

SectionNames == { <<"S">>, <<FOOTER_MARKER>> }

AnchorTexts == { <<"T">> }

Htmls == { <<"<b>", "h", "</b>">>, <<FOOTER_MARKER>> }

PrintOut == PrintOp(Texts, {"stdout"})

ErrTexts == {<<"a">>, <<"###", " ", "T", "\n">>}

PrintErr == PrintOp(ErrTexts, {"stderr"})

StartSection == StartOp(SectionNames)

AnchorCall == AnchorOp(AnchorTexts, {FALSE})

InjectCall == InjectOp(Htmls, {<<>>})

EndChunkCall == EndChunkOp

Next ==
  \/ PrintOut
  \/ PrintErr
  \/ StartSection
  \/ AnchorCall
  \/ InjectCall
  \/ EndChunkCall

Spec == Init /\ [][Next]_vars

\* C1: after every public operation, whatever the arguments (section names
\* and injected HTML holding the marker text included), the marker occurs
\* exactly once in the file and the fixed footer tail follows it directly.
C1_MarkerOnce ==
  /\ Cardinality(MarkerOffsets(fh)) = 1
  /\ FooterTailOf(fh) = TemplateFooterTail

\* C8: an operation's splices leave every byte before its lowest splice
\* point as it was, leave the bytes after the marker as they were, and never
\* touch the fixed header.
C8_SplicePreserves ==
  /\ SubSeq(fh, 1, Len(TemplateHeader)) = TemplateHeader
  /\ FooterTailOf(fh) = FooterTailOf(pre.fh)
  /\ FooterTailOf(fh) = TemplateFooterTail
  /\ IF op.low = 0 THEN fh = pre.fh
     ELSE /\ op.low > Len(TemplateHeader)
          /\ SubSeq(fh, 1, op.low - 1) = SubSeq(pre.fh, 1, op.low - 1)

\* a merge or a carriage-return rewrite spliced inside the body, behind
\* earlier output
C8_Witness ==
  /\ op.route \in {"merge", "cr"}
  /\ op.low > Len(TemplateHeader) + 1
  /\ fh # pre.fh

\* C9: end_chunk is idempotent.  A second end_chunk right after a first
\* leaves the file, the block kind and the style state as they were and
\* writes nothing; and from every state, end_chunk applied twice gives the
\* writer that end_chunk applied once gives.
C9_EndChunkIdempotent ==
  /\ (Len(hist) >= 2 /\ Past(0).name = "end_chunk" /\ Past(1).name = "end_chunk")
       => /\ fh = pre.fh
          /\ lastChunkType = pre.lastType
          /\ lastChunkBase = pre.lastBase
          /\ ansiState = pre.ansi
          /\ op.low = 0
  /\ EndChunk(EndChunk(Cur)) = EndChunk(Cur)

\* two end_chunk calls in a row, the first of which closed a span
C9_Witness ==
  /\ Len(hist) >= 3
  /\ Past(0).name = "end_chunk" /\ Past(1).name = "end_chunk"
  /\ Past(2).name = "print"
  /\ fh[LastMarker(fh) - 1] = "</span>"

\* the operations that terminate the open block before they write
Structural == {"start", "anchor", "inject_html", "end_chunk"}

\* C21: after start, anchor, inject_html or end_chunk has returned, no block
\* is open and no style attribute is active; the print that follows starts a
\* new block and changes nothing in front of the marker it found.
C21_StructuralOpsTerminate ==
  /\ (op.name \in Structural /\ ~op.raised) =>
       /\ lastChunkType = None
       /\ lastChunkBase = None
       /\ ansiState = NoStyle
  /\ (Len(hist) >= 2 /\ Past(1).name \in Structural /\ op.name = "print") =>
       /\ op.route = "new"
       /\ Cardinality(AllBlockStarts(fh)) = Cardinality(AllBlockStarts(pre.fh)) + 1
       /\ SubSeq(fh, 1, LastMarker(pre.fh) - 1)
            = SubSeq(pre.fh, 1, LastMarker(pre.fh) - 1)

\* a styled stdout print, a section header, and a stdout print again: two
\* stdout blocks, the span of the first closed
C21_Witness ==
  /\ Len(hist) = 3
  /\ IsPrintOf(hist[1], <<"ESC[31m", "r">>, "stdout")
  /\ hist[2].name = "start"
  /\ IsPrintOf(hist[3], <<"a">>, "stdout")
  /\ NumBlocks(fh, "stdout") = 2
  /\ OpenSpans(fh) = 0

-----------------------------------------------------------------------------
(* Merging: prints of both kinds, styles, and sections *)

MergeTexts ==
  { <<"a">>, <<"b", "\n">>, <<"ESC[31m", "r">>, <<"s", "ESC[0m">>,
    <<"ESC[1m", "x">>, <<"ESC[A">>, <<"###", " ", "T", "\n">> }

MergeOut == PrintOp(MergeTexts, {"stdout"})

MergeErrTexts == {<<"a">>, <<"b", "\n">>, <<"ESC[31m", "r">>, <<"s", "ESC[0m">>}

MergeErr == PrintOp(MergeErrTexts, {"stderr"})

MergeStart == StartOp({<<"S">>})

NextMerge ==
  \/ MergeOut
  \/ MergeErr
  \/ MergeStart

SpecMerge == Init /\ [][NextMerge]_vars

\* C2 as stated: consecutive plain prints of one mergeable kind produce
\* exactly one block of that kind, whose content is the rendered texts of
\* the calls in call order.
C2_RunOneBlockAlways ==
  run.n > 0 =>
    /\ NumBlocks(fh, run.kind) = run.before + 1
    /\ LastBlockContent(fh, run.kind) = run.rendered

\* C2, amended: when the writer is not in cursor-control mode at the first
\* call, the run adds exactly one block of its kind, whose content is the
\* rendered texts in call order; or, when a block of that kind was open
\* already, adds none and that block's content ends with them.  Either way
\* it is the last block of the file.
C2_RunOneBlock ==
  (run.n > 0 /\ ~run.cursorAtStart) =>
    /\ NumBlocks(fh, run.kind) = run.before + (IF run.openAtStart THEN 0 ELSE 1)
    /\ Max(AllBlockStarts(fh)) \in BlockStarts(fh, run.kind)
    /\ IF run.openAtStart
       THEN IsSuffix(run.rendered, LastBlockContent(fh, run.kind))
       ELSE LastBlockContent(fh, run.kind) = run.rendered

\* three plain prints in a row, outside cursor-control mode
C2_Witness ==
  /\ run.n >= 3
  /\ ~run.cursorAtStart
  /\ ~run.openAtStart
  /\ Len(run.rendered) >= 3

\* C3 as stated: a print whose kind differs from the open block's kind
\* never extends it; it creates a separate block of its kind after it.
C3_OtherKindNewBlockAlways ==
  (/\ op.name = "print"
   /\ AnchorTitles(op.text) = <<>>
   /\ pre.lastBase # None
   /\ op.kind # pre.lastBase)
    => NewBlockAppended(op.kind)

\* C3, amended: a print whose kind after classification (cursor-control when
\* the text holds a non-m escape or the writer stays in cursor-control mode,
\* the kind given otherwise) differs from the open block's kind never
\* extends it: the file before the marker is untouched and one new block of
\* that kind, holding the rendered text, follows it.
C3_OtherKindNewBlock ==
  (/\ op.name = "print"
   /\ AnchorTitles(op.text) = <<>>
   /\ pre.lastBase # None
   /\ ChunkType(pre, op.text, op.kind) # pre.lastBase)
    => NewBlockAppended(ChunkType(pre, op.text, op.kind))

\* a stderr print while a stdout block was open
C3_Witness ==
  /\ op.name = "print"
  /\ op.kind = "stderr"
  /\ pre.lastBase = "stdout"
  /\ op.route = "new"
  /\ BlockStarts(fh, "stdout") # {}
  /\ Max(BlockStarts(fh, "stderr")) > Max(BlockStarts(fh, "stdout"))

\* C5: a print that leaves a colour active, then a print of the same kind
\* that continues and resets: one span is opened for the colour, it covers
\* both texts, and it is closed after the second call.
C5_SingleSpan ==
  \A k \in Kinds :
    (/\ Len(hist) = 2
     /\ IsPrintOf(hist[1], <<"ESC[31m", "r">>, k)
     /\ IsPrintOf(hist[2], <<"s", "ESC[0m">>, k))
      => /\ NumSpanOpens(fh) = 1
         /\ OpenSpans(fh) = 0
         /\ LastBlockContent(fh, k)
              = <<"<span style=\"color:#aa0000\">", "r", "s", "</span>">>

\* C7: start between two stdout prints (in a session without cursor-control
\* output): two stdout blocks with the section header between them, and
\* every span opened before the header is closed before it.
C7_SectionSeparates ==
  (/\ Len(hist) >= 3
   /\ Past(2).name = "print" /\ Past(2).kind = "stdout"
   /\ Past(1).name = "start"
   /\ Past(0).name = "print" /\ Past(0).kind = "stdout"
   /\ \A i \in 1..Len(hist) : ~HasCsi(hist[i].text))
    => LET h == Max({ i \in 1..Len(fh) : fh[i] = SectionHeaderOpen("s") })
       IN  /\ \E i \in BlockStarts(fh, "stdout") : i < h
           /\ \E j \in BlockStarts(fh, "stdout") : j > h
           /\ OpenSpans(SubSeq(fh, 1, h - 1)) = 0

\* C14: when print starts a new block because its kind differs from the
\* open block's kind, the span the earlier block left open is closed in front
\* of the new block and the text is rendered from the empty style state.
C14_NewBlockFreshStyle ==
  (/\ op.name = "print"
   /\ op.route = "new"
   /\ AnchorTitles(op.text) = <<>>
   /\ pre.lastBase # None
   /\ AnsiActive(pre.ansi))
    => /\ OpenSpans(SubSeq(fh, 1, Max(AllBlockStarts(fh)) - 1)) = 0
       /\ op.rendered = Convert(NoStyle, op.text, lastChunkType).out

\* C20: the print that ends cursor-control mode is written as a new block of
\* the kind the caller passed.
C20_ExitKeepsCallerKind ==
  (/\ op.name = "print"
   /\ AnchorTitles(op.text) = <<>>
   /\ LeavesCursorMode(pre, op.text))
    => /\ NewBlockAppended(op.kind)
       /\ lastChunkBase = op.kind

-----------------------------------------------------------------------------
(* Carriage returns and cursor-control output *)

CursorTexts ==
  { <<"X", "\r", "Y">>, <<"ESC[A">>, <<"ESC[A", "\r", "p">>, <<"ESC[K", "q">>,
    <<"Done.", "\n">> }

CursorOut == PrintOp(CursorTexts, {"stdout"})

CursorErrTexts == {<<"X", "\r", "Y">>, <<"ESC[A">>, <<"a">>}

CursorErr == PrintOp(CursorErrTexts, {"stderr"})

NextCursor ==
  \/ CursorOut
  \/ CursorErr

SpecCursor == Init /\ [][NextCursor]_vars

\* C4: on a fresh session, one print of X, carriage return, Y yields one
\* block whose last line is Y alone.
C4_FreshCarriageReturn ==
  \A k \in Kinds :
    (Len(hist) = 1 /\ IsPrintOf(hist[1], <<"X", "\r", "Y">>, k))
      => /\ NumBlocks(fh, k) = 1
         /\ LastLine(LastBlockContent(fh, k)) = <<"Y">>

\* C6: prints that each hold a non-m escape sequence are grouped into one
\* cursor-control block, and a following print of "Done.\n" starts a new
\* stdout block, after it, that begins with that text.
C6_CursorGrouping ==
  (/\ Len(hist) >= 2
   /\ IsPrintOf(Past(0), <<"Done.", "\n">>, "stdout")
   /\ \A i \in 1..(Len(hist) - 1) : hist[i].name = "print" /\ HasCsi(hist[i].text))
    => /\ NumBlocks(fh, "ansi-cursor") = 1
       /\ NumBlocks(fh, "stdout") = 1
       /\ Max(BlockStarts(fh, "stdout")) > Max(BlockStarts(fh, "ansi-cursor"))
       /\ LastBlockContent(fh, "stdout")[1] = "Done."

\* the offset at which the open block of the earlier state starts (no block
\* open: the marker); everything in front of it is closed history
OpenBlockStart ==
  IF pre.lastBase = None THEN LastMarker(pre.fh)
  ELSE Max(BlockStarts(pre.fh, pre.lastBase))

\* C13: an operation changes no byte in front of the open block; a print
\* with a carriage return made while the open block is a cursor-control
\* block leaves every earlier stdout block as it was.
C13_ClosedBlocksImmutable ==
  op.name = "print" =>
    /\ Len(fh) >= OpenBlockStart - 1
    /\ SubSeq(fh, 1, OpenBlockStart - 1) = SubSeq(pre.fh, 1, OpenBlockStart - 1)

\* C19: in cursor-control mode a print that does not end the mode (it does
\* not end with a newline, or holds a non-m escape sequence, a carriage
\* return or a backspace) is merged into the open cursor-control block,
\* whatever kind the caller passed.
C19_CursorModeMerges ==
  (/\ op.name = "print"
   /\ pre.lastType = "ansi-cursor"
   /\ ~LeavesCursorMode(pre, op.text))
    => /\ lastChunkType = "ansi-cursor"
       /\ AllBlockStarts(fh) = AllBlockStarts(pre.fh)
       /\ BlockContent(fh, OpenBlockStart)
            = BlockContent(pre.fh, OpenBlockStart) \o op.rendered
       /\ SubSeq(fh, 1, OpenBlockStart + 1) = SubSeq(pre.fh, 1, OpenBlockStart + 1)

-----------------------------------------------------------------------------
(* Carriage returns into an open block *)

ReturnTexts ==
  { <<"a", "\n", "b">>, <<"X", "\r", "Y">>, <<"X", "\r", "ESC[31m", "Y">>,
    <<"\r", "<", "&">>, <<"ESC[K", "c", "\r", "d">> }

ReturnOut == PrintOp(ReturnTexts, {"stdout"})

ReturnErrTexts == {<<"a", "\n", "b">>, <<"X", "\r", "Y">>, <<"n", "\r">>}

ReturnErr == PrintOp(ReturnErrTexts, {"stderr"})

NextReturn ==
  \/ ReturnOut
  \/ ReturnErr

SpecReturn == Init /\ [][NextReturn]_vars

\* the lines of the open block of the earlier state
OpenLines == Split(BlockContent(pre.fh, OpenBlockStart), "\n")

\* the segment of the printed text after its final carriage return
LastSegment == Split(op.text, "\r")[Len(Split(op.text, "\r"))]

\* no block was added, and the open block's content is its earlier lines
\* with the last one replaced by the escaped, stripped segment; the bytes in
\* front of the content and from its end on are as before
LastLineReplaced ==
  /\ AllBlockStarts(fh) = AllBlockStarts(pre.fh)
  /\ BlockContent(fh, OpenBlockStart)
       = Join([OpenLines EXCEPT ![Len(OpenLines)] = EscapeHtml(StripAnsi(LastSegment))],
              "\n")
  /\ SubSeq(fh, 1, OpenBlockStart + 1) = SubSeq(pre.fh, 1, OpenBlockStart + 1)
  /\ IsSuffix(SubSeq(pre.fh, FindFrom(pre.fh, "</pre>", OpenBlockStart), Len(pre.fh)), fh)

-----------------------------------------------------------------------------
(* The tee: writes through the proxies, and anchors *)

TeeTexts ==
  { <<"a">>, <<"b", "\n">>, <<"[(link)", "x", "](file://", "u", ")">> }

TeeWrite == WriteOp(TeeTexts, Kinds)

TeeAnchor == AnchorOp(AnchorTexts, BOOLEAN)

NextTee ==
  \/ TeeWrite
  \/ TeeAnchor

InitTee == InitIn(Envs)

SpecTee == InitTee /\ [][NextTee]_vars

-----------------------------------------------------------------------------
(* The end of the session *)

LifeTexts == { <<"a">>, <<"ESC[31m", "r">>, <<"s", "ESC[0m">> }

Tracebacks ==
  { <<>>,
    << <<"Traceback (most recent call last):", "\n">>,
       <<"RuntimeError: boom", "\n">> >> }

LifePrint == PrintOp(LifeTexts, {"stdout"})

LifeWriteTexts == {<<"a">>, <<"w", "\n">>}

LifeWrite == WriteOp(LifeWriteTexts, Kinds)

LifeExit == ExitOp(Tracebacks)

NextLife ==
  \/ LifePrint
  \/ LifeWrite
  \/ LifeExit

SpecLife == Init /\ [][NextLife]_vars

\* C11: after __exit__, sys.stdout and sys.stderr are the streams found at
\* __enter__, the file handle is closed, and a write by the program reaches
\* the stream only: it leaves the document as it was.
C11_AfterExitNotLogged ==
  fhClosed =>
    /\ sysStdout = "orig"
    /\ sysStderr = "orig"
    /\ op.name = "write" =>
         /\ fh = pre.fh
         /\ op.route = "none"
         /\ IF op.kind = "stdout"
            THEN origStdout[Len(origStdout)] = [by |-> "program", s |-> op.text]
            ELSE origStderr[Len(origStderr)] = [by |-> "program", s |-> op.text]

\* the program wrote during the session (and was logged), the session ended,
\* and the program wrote again
C11_Witness ==
  /\ fhClosed
  /\ Len(hist) >= 3
  /\ hist[1].name = "write"
  /\ \E i \in 2..(Len(hist) - 1) : hist[i].name = "exit"
  /\ op.name = "write"
  /\ op.text = <<"w", "\n">>
  /\ ~Contains(fh, "w")

\* C16: when the session ends, normally or with an exception, while a style
\* span is open, the span is closed in the document: the final document has
\* no unclosed span.
C16_ExitClosesSpan ==
  (op.name = "exit" /\ AnsiActive(pre.ansi)) =>
    /\ OpenSpans(fh) = 0
    /\ ansiState = NoStyle

-----------------------------------------------------------------------------
(* Two threads printing on one session.  print takes no lock of its own   *)
(* (lines 469-551); self._file_lock is held inside _insert_bytes,          *)
(* _insert_before_closer and _apply_carriage_return only.  A thread's call *)
(* is three steps: the lines up to the choice of the branch, the locked    *)
(* call, and lines 550-551.  The interpreter may switch threads inside a   *)
(* step as well; the steps here are a subset of its schedules.             *)

ThreadTexts == { <<"a">>, <<"X", "\r", "Y">>, <<"ESC[31m", "r">> }

\* the step of a thread: the writer it leaves and the locals it keeps
ThreadStep(t, w, c, name) ==
  /\ CommitWriter(w, name, c.text, c.kind)
  /\ thr' = [thr EXCEPT ![t] = c]
  /\ run' = NoRun
  /\ UNCHANGED <<written, sysStdout, sysStderr, fhClosed, proc>>

\* thread t calls print(text, kind) and runs it up to lines 535-547
ThreadDecide(t) ==
  /\ thr[t].pc = "ready"
  /\ ~fhClosed
  /\ \E text \in ThreadTexts, kind \in Kinds :
       ThreadStep(t, PrintDecide(Cur, text, kind).w,
                  PrintDecide(Cur, text, kind).call, "decide")
  /\ fork' = IF \A u \in Threads : thr[u].pc = "ready" THEN Cur ELSE fork

\* thread t makes its locked call
ThreadSplice(t) ==
  /\ thr[t].pc = "decided"
  /\ ThreadStep(t, PrintSplice(Cur, thr[t]),
                [thr[t] EXCEPT !.pc = IF thr[t].branch = "new" THEN "spliced" ELSE "done"],
                "splice")
  /\ UNCHANGED fork

\* thread t runs lines 550-551
ThreadRecord(t) ==
  /\ thr[t].pc = "spliced"
  /\ ThreadStep(t, [Cur EXCEPT !.lastType = thr[t].chunk_type,
                               !.lastBase = thr[t].chunk_type],
                [thr[t] EXCEPT !.pc = "done"], "record")
  /\ UNCHANGED fork

\* the main thread prints before the threads start
ThreadSetup ==
  /\ \A t \in Threads : thr[t].pc = "ready"
  /\ PrintOp({<<"a">>}, {"stdout"})

Decide == \E t \in Threads : ThreadDecide(t)

Splice == \E t \in Threads : ThreadSplice(t)

Record == \E t \in Threads : ThreadRecord(t)

NextThreads ==
  \/ ThreadSetup
  \/ Decide
  \/ Splice
  \/ Record

SpecThreads == Init /\ [][NextThreads]_vars

\* the writer after thread t's call and then thread u's call, each run alone
Serial(t, u) ==
  LogPrint(LogPrint(fork, thr[t].text, thr[t].kind), thr[u].text, thr[u].kind)

\* C17: when both threads have returned from print, the document and the
\* writer's block and style state are what the two calls give when run one
\* after the other, in one of the two orders.
C17_Serializable ==
  (\A t \in Threads : thr[t].pc = "done") =>
    \E t, u \in Threads :
      /\ t # u
      /\ fh = Serial(t, u).fh
      /\ lastChunkBase = Serial(t, u).lastBase
      /\ ansiState = Serial(t, u).ansi

-----------------------------------------------------------------------------
(* Two processes writing to one document.  Each has its own handle, marker *)
(* cache and block state (those of the session when the processes split),  *)
(* and makes one call of print.  The call reads the file and prepares its  *)
(* write (_find_marker, _read_footer_tail, the chunk read of lines         *)
(* 419-420), and then seeks, writes and truncates under flock.  Offsets    *)
(* are byte offsets here: a prepared offset is applied to whatever the     *)
(* file holds when the lock is obtained.                                   *)

\* a line of progress output, 32 bytes, none of which _escape_html changes
LongLine == "epoch 1/10 [=====-......] 0.4321"

ProcTexts == { <<"a">>, <<"\r", "Y">> }

\* the write a call prepares: L2 is the writer the call would leave if it
\* ran alone on file f
Prepared(f, L2, text, kind) ==
  [pc |-> "located", text |-> text, kind |-> kind,
   pos |-> ByteOffset(f, L2.low), bytes |-> SubSeq(L2.fh, L2.low, Len(L2.fh))]

ProcStep(p, f, c, name) ==
  /\ CommitWriter([Cur EXCEPT !.fh = f], name, c.text, c.kind)
  /\ proc' = [proc EXCEPT ![p] = c]
  /\ run' = NoRun
  /\ UNCHANGED <<written, sysStdout, sysStderr, fhClosed, thr, fork>>

\* process p calls print(text, kind): everything up to the flock
ProcLocate(p) ==
  /\ proc[p].pc = "idle"
  /\ ~fhClosed
  /\ \E text \in ProcTexts, kind \in Kinds :
       ProcStep(p, fh, Prepared(fh, LogPrint(Cur, text, kind), text, kind), "locate")

\* process p holds the flock: seek, write, truncate
ProcSplice(p) ==
  /\ proc[p].pc = "located"
  /\ ProcStep(p, RewriteAtByte(fh, proc[p].pos, proc[p].bytes),
              [proc[p] EXCEPT !.pc = "done"], "rewrite")

SetupTexts == { <<LongLine>>, <<"b", "\n", "c">> }

\* the session prints before the processes split
ProcSetup ==
  /\ \A p \in Procs : proc[p].pc = "idle"
  /\ PrintOp(SetupTexts, {"stdout"})

Locate == \E p \in Procs : ProcLocate(p)

Rewrite == \E p \in Procs : ProcSplice(p)

NextProcs ==
  \/ ProcSetup
  \/ Locate
  \/ Rewrite

SpecProcs == Init /\ [][NextProcs]_vars

\* C18: when both processes have completed their mutation, the marker
\* occurs exactly once in the file and the footer tail follows it.
C18_OneMarkerAfterBoth ==
  (\A p \in Procs : proc[p].pc = "done") =>
    /\ Cardinality(MarkerOffsets(fh)) = 1
    /\ FooterTailOf(fh) = TemplateFooterTail

-----------------------------------------------------------------------------
(* A file that lost its marker *)

\* what another program can leave of file f: f cut off in front of the
\* marker, or f with the marker taken out.  Either way _find_marker ends at
\* line 194.
Damaged(f) ==
  { SubSeq(f, 1, Min(MarkerOffsets(f)) - 1),
    SelectSeq(f, LAMBDA u : u # FOOTER_MARKER) }

\* the environment damages the file while the session is open
MarkerLost ==
  /\ nops < MaxOps
  /\ ~fhClosed
  /\ MarkerOffsets(fh) # {}
  /\ \E f \in Damaged(fh) :
       Commit([Cur EXCEPT !.fh = f], "damage", <<>>,
              IF Len(f) < Min(MarkerOffsets(fh)) THEN "cut" ELSE "marker-removed")
  /\ run' = NoRun
  /\ UNCHANGED written

NextFault ==
  \/ PrintOut
  \/ PrintErr
  \/ StartSection
  \/ AnchorCall
  \/ InjectCall
  \/ MarkerLost

SpecFault == Init /\ [][NextFault]_vars

\* C12: print, start, anchor or inject_html called on a file without the
\* marker raises to the caller, writes nothing and leaves the file bytes as
\* they were; and whenever a call raises, the file is as it was.
C12_NoMarkerNoWrite ==
  /\ (op.name \in {"print", "start", "anchor", "inject_html"}
        /\ MarkerOffsets(pre.fh) = {}) =>
       /\ op.raised
       /\ op.low = 0
       /\ fh = pre.fh
  /\ op.raised => (fh = pre.fh /\ MarkerOffsets(pre.fh) = {})

\* a print into an open block with an open span, after the marker was lost
C12_Witness ==
  /\ Len(hist) >= 3
  /\ hist[Len(hist) - 1].name = "damage"
  /\ op.name = "print"
  /\ op.raised
  /\ pre.lastBase = "stdout"
  /\ AnsiActive(pre.ansi)
  /\ Len(fh) > 0

-----------------------------------------------------------------------------
(* The marker cache.  Offsets are unit indices here and byte offsets in the *)
(* code, so the growth of a rewritten line is counted in units: the text   *)
(* below grows the last line by eight units, the distance between the      *)
(* marker text of a section header and the marker two blocks later (in the *)
(* code the same distance is a number of bytes).                           *)

GrowingReturn == <<"\r", "y", "y", "y", "y", "y", "y", "y", "y", "y">>

CacheTexts == { <<"x">>, <<"ESC[A">>, GrowingReturn }

CachePrint == PrintOp(CacheTexts, {"stdout"})

NextCache ==
  \/ CachePrint
  \/ StartSection

SpecCache == Init /\ [][NextCache]_vars

\* C22: after every public operation the cached marker offset is unset or is
\* the offset of the marker in front of the footer tail, and the lookup
\* returns that offset.
C22_CacheIsMarkerOffset ==
  /\ markerPosCache \in {0, LastMarker(fh)}
  /\ MarkerPos(Cur) = LastMarker(fh)

-----------------------------------------------------------------------------
(* The SGR conversion on its own: prints of styled text, each converted     *)
(* from the style state the one before left                                *)

SgrTexts ==
  { <<"ESC[1m", "a", "ESC[2m">>, <<"ESC[4m", "ESC[3m", "b">>,
    <<"ESC[31m", "ESC[44m">>, <<"ESC[93m", "c", "ESC[102m">>,
    <<"ESC[0m">>, <<"ESC[m", "ESC[32m">>, <<"ESC[1;31m", "d">> }

SgrPrint == PrintOp(SgrTexts, {"stdout"})

SgrEndChunk == EndChunkOp

NextSgr ==
  \/ SgrPrint
  \/ SgrEndChunk

SpecSgr == Init /\ [][NextSgr]_vars

\* the reference: what one code does to a style
RefCode(st, code) ==
  IF code = 0 THEN NoStyle
  ELSE IF code = 1 THEN [st EXCEPT !.bold = TRUE]
  ELSE IF code = 2 THEN [st EXCEPT !.dim = TRUE]
  ELSE IF code = 4 THEN [st EXCEPT !.underline = TRUE]
  ELSE IF code \in 30..37 THEN [st EXCEPT !.fg_color = Palette[code - 29]]
  ELSE IF code \in 90..97 THEN [st EXCEPT !.fg_color = BrightPalette[code - 89]]
  ELSE IF code \in 40..47 THEN [st EXCEPT !.bg_color = Palette[code - 39]]
  ELSE IF code \in 100..107 THEN [st EXCEPT !.bg_color = BrightPalette[code - 99]]
  ELSE st

RECURSIVE RefCodes(_, _)
RefCodes(st, codes) ==
  IF Len(codes) = 0 THEN st ELSE RefCodes(RefCode(st, codes[1]), Tail(codes))

\* the reference fold over a text: each SGR sequence applies its codes, an
\* empty parameter list code 0; other parts change nothing
RECURSIVE RefFold(_, _)
RefFold(st, text) ==
  IF Len(text) = 0 THEN st
  ELSE RefFold(IF text[1] \in SgrUnits
               THEN RefCodes(st, IF SgrCodes(text[1]) = <<>> THEN <<0>> ELSE SgrCodes(text[1]))
               ELSE st,
               Tail(text))

\* the conversion of the first k parts of text, begun in style st
ConvertedUpTo(st, text, k) ==
  AnsiParts([st |-> st, span_open |-> AnsiActive(st),
             out |-> IF AnsiActive(st) THEN <<SpanOpenTag(st)>> ELSE <<>>],
            SubSeq(text, 1, k))

\* the largest SGR code the table is compared on
MaxCode == 110

\* C23: the style state after every prefix of a converted text is the
\* reference fold of its codes; after each escape sequence the output has
\* one span open when an attribute is active and none otherwise; and every
\* single code, in every style state reached, acts as the reference says.
C23_SgrFold ==
  /\ op.name = "print" =>
       /\ ansiState = RefFold(pre.ansi, op.text)
       /\ \A k \in 0..Len(op.text) :
            /\ ConvertedUpTo(pre.ansi, op.text, k).st
                 = RefFold(pre.ansi, SubSeq(op.text, 1, k))
            /\ OpenSpans(ConvertedUpTo(pre.ansi, op.text, k).out)
                 = IF AnsiActive(ConvertedUpTo(pre.ansi, op.text, k).st) THEN 1 ELSE 0
            /\ ConvertedUpTo(pre.ansi, op.text, k).span_open
                 = AnsiActive(ConvertedUpTo(pre.ansi, op.text, k).st)
  /\ \A code \in 0..MaxCode :
       ApplyCode([st |-> ansiState, span_open |-> AnsiActive(ansiState), out |-> <<>>],
                 code).st = RefCode(ansiState, code)

\* bold, dim and a colour are active, an unknown code was seen, and the
\* last print set a second attribute on top
C23_Witness ==
  /\ Len(hist) >= 3
  /\ \E i \in 1..Len(hist) : IsPrintOf(hist[i], <<"ESC[4m", "ESC[3m", "b">>, "stdout")
  /\ IsPrintOf(Past(0), <<"ESC[1m", "a", "ESC[2m">>, "stdout")
  /\ AnsiActive(pre.ansi)
  /\ ansiState.bold /\ ansiState.dim /\ ansiState.underline
  /\ ansiState.fg_color # None

-----------------------------------------------------------------------------
(* Auto-anchors: prints whose text holds heading lines and panel borders    *)

\* texts with one auto-anchor line, its title T
HeaderTexts ==
  { <<"###", " ", "T", "\n", "x">>,
    <<"x", "\n", "####", " ", "T">>,
    <<PanelTopLeft, " ", "T", " ", PanelDash, PanelTopRight, "\n", "p">> }

\* texts without one: a border with an empty title, a heading line longer
\* than the limit, two # only, plain and styled text, a cursor movement
NoHeaderTexts ==
  { <<PanelTopLeft, PanelDash, PanelDash, PanelTopRight, "\n", "p">>,
    <<"###", " ", LongRun>>,
    <<"##", " ", "T">>,
    <<"a">>, <<"ESC[31m", "r">>, <<"ESC[A">> }

AnchorOutTexts == HeaderTexts \cup NoHeaderTexts

AnchorPrintOut == PrintOp(AnchorOutTexts, {"stdout"})

AnchorErrTexts == {<<"a">>, <<"###", " ", "T", "\n", "x">>}

AnchorPrintErr == PrintOp(AnchorErrTexts, {"stderr"})

NextAnchor ==
  \/ AnchorPrintOut
  \/ AnchorPrintErr

SpecAnchor == Init /\ [][NextAnchor]_vars

\* the offsets where an anchor header ends
HeaderEnds(f) == { i \in 1..Len(f) : f[i] = "</h2>" }

-----------------------------------------------------------------------------
(* Identifiers: sections and anchors named with spaces, punctuation and '-' *)

SlugNames ==
  { <<"T">>, <<"a", "-", "-", "b">>, <<"a", " ", "-", "b">>, <<"a", " ", "!", "b">>,
    <<"-", "a", "_", "7", "-">>, <<" ", "!">>, <<"-", "-">>, <<"T", "!", "-", "!", "S">> }

SlugSectionNames == { <<"S", " ", "7">>, <<"a", "-", " ", "-", "b">>, <<"!">> }

SlugAnchor == AnchorOp(SlugNames, {FALSE})

SlugStart == StartOp(SlugSectionNames)

NextSlug ==
  \/ SlugAnchor
  \/ SlugStart

SpecSlug == Init /\ [][NextSlug]_vars

\* the maximal runs of characters of [a-z0-9_] in the lowercased name,
\* joined by single '-'; the placeholder when there is none
RunsJoined(name) ==
  LET c       == Lowered(name)
      Core(i) == SlugAllowed(c[i]) /\ c[i] # "-"
      First   == Min({ i \in 1..Len(c) : Core(i) })
      slug    == ConcatStr([i \in 1..Len(c) |->
                   IF ~Core(i) THEN ""
                   ELSE IF i > First /\ ~Core(i - 1) THEN "-" \o c[i]
                   ELSE c[i]])
  IN  IF \A i \in 1..Len(c) : ~Core(i) THEN "anchor" ELSE slug

\* the identifiers the last operation wrote are those id gives
IdentifiersAre(id(_)) ==
  /\ (op.name = "start" /\ ~op.raised) =>
       /\ currentSectionId = id(op.text)
       /\ fh[LastMarker(pre.fh)] = SectionHeaderOpen(id(op.text))
  /\ (op.name = "anchor" /\ ~op.raised) =>
       fh[LastMarker(pre.fh)] =
         "<h2 id=\"" \o id(op.text) \o "-UUID6\" data-section=\""
           \o (IF currentSectionId = "unset" THEN id(op.text) \o "-UUID6"
               ELSE currentSectionId)
           \o "\" data-timestamp=\"TS\" title=\"TS\">"

\* C25, as found: the identifier of a section or an anchor is the maximal
\* runs of characters of [a-z0-9_] of the lowercased name joined by single
\* '-' (runs of '-' are collapsed, those the name holds included), and the
\* placeholder when nothing is left.
C25_SlugCollapsesDashes == IdentifiersAre(RunsJoined)

\* C25, as stated: lowercase, each run of characters outside [a-z0-9_-]
\* replaced by one '-', leading and trailing '-' trimmed, the placeholder for
\* an empty result; the '-' of the name kept as they are.
C25_SlugAsStated == IdentifiersAre(SlugifyKeepsDashes)

\* an anchor named "a--b" got the identifier a-b
C25_Witness ==
  /\ op.name = "anchor" /\ op.text = <<"a", "-", "-", "b">> /\ ~op.raised
  /\ Len(hist) = 2 /\ Past(1).name = "start"
  /\ Slugify(op.text) = "a-b"
  /\ \E i \in 1..Len(fh) :
       fh[i] = "<h2 id=\"a-b-UUID6\" data-section=\"" \o currentSectionId
                 \o "\" data-timestamp=\"TS\" title=\"TS\">"

-----------------------------------------------------------------------------
(* The document and the session's style state *)

\* C26: after every operation the spans opened and not closed in the file
\* number one when a style attribute is active in the session and none when
\* no attribute is.
C26_SpansMatchStyle ==
  ~op.raised => OpenSpans(fh) = IF AnsiActive(ansiState) THEN 1 ELSE 0

-----------------------------------------------------------------------------
(* The open block and the marker *)

\* the offset of the last block opening tag in front of offset m, 0 if none
LastBlockStartBefore(f, m) ==
  IF { i \in AllBlockStarts(f) : i < m } = {} THEN 0
  ELSE Max({ i \in AllBlockStarts(f) : i < m })

\* C27: whenever no call of a thread is in progress and a block kind is
\* recorded as open, the file in front of the marker ends with the
\* block-closing sequence, and the block it closes, the last one opened in
\* front of the marker, is of that kind and holds no second closing
\* sequence: nothing lies between the open block and the marker.
C27_CloserBeforeMarker ==
  ((\A t \in Threads : thr[t].pc \in {"ready", "done"}) /\ lastChunkBase # None) =>
    /\ IsSuffix(CHUNK_CLOSER, SubSeq(fh, 1, LastMarker(fh) - 1))
    /\ LastBlockStartBefore(fh, LastMarker(fh)) # 0
    /\ fh[LastBlockStartBefore(fh, LastMarker(fh))] = DivOpen(lastChunkBase)
    /\ FindFrom(fh, "</pre>", LastBlockStartBefore(fh, LastMarker(fh)))
         = LastMarker(fh) - Len(CHUNK_CLOSER)

-----------------------------------------------------------------------------
(* Text that looks like the document's own markup *)

\* the units of a text that hold '<', '>' or '&'
MarkupUnits ==
  { FOOTER_MARKER, "</pre>", "</div>", "<pre>", "<", ">", "&",
    DivOpen("stdout"), DivOpen("stderr"), DivOpen("ansi-cursor") }

EscapeTexts ==
  { <<"a">>, <<"b", "\n">>,
    <<FOOTER_MARKER>>,
    <<"</pre>", "</div>", "\n">>,
    <<DivOpen("stdout"), "<pre>", "&">>,
    <<"X", "\r", FOOTER_MARKER, "</pre>", "</div>">>,
    <<"ESC[A", FOOTER_MARKER, "</div>">>,
    <<"ESC[31m", DivOpen("stderr"), "<", ">">>,
    <<"###", " ", FOOTER_MARKER, "\n">> }

EscapePrintOut == PrintOp(EscapeTexts, {"stdout"})

EscapeErrTexts ==
  { <<"a">>, <<FOOTER_MARKER, "\n">>, <<"\r", "</pre>", "</div>", "\n">> }

EscapePrintErr == PrintOp(EscapeErrTexts, {"stderr"})

NextEscape ==
  \/ EscapePrintOut
  \/ EscapePrintErr

SpecEscape == Init /\ [][NextEscape]_vars

\* the markup print itself writes around a text
BlockMarkup ==
  { "<pre>", "</pre>", "</div>",
    DivOpen("stdout"), DivOpen("stderr"), DivOpen("ansi-cursor") }

\* the same text with a letter in place of each unit of markup: plain text
\* with the same line ends, carriage returns and escape sequences
Plain(text) ==
  [i \in 1..Len(text) |-> IF text[i] \in MarkupUnits THEN "a" ELSE text[i]]

Count(f, u) == Cardinality({ i \in 1..Len(f) : f[i] = u })

\* how many markers, block opening tags and parts of closing sequences a
\* file holds
Structure(f) ==
  [markers |-> Count(f, FOOTER_MARKER),
   opens   |-> Cardinality(AllBlockStarts(f)),
   pres    |-> Count(f, "<pre>"),
   endpres |-> Count(f, "</pre>"),
   enddivs |-> Count(f, "</div>"),
   headers |-> Count(f, "</h2>")]

\* the writer as the last operation found it; its marker cache is left
\* unset, so the marker is looked up again
Before ==
  [Cur EXCEPT !.fh = pre.fh, !.cache = 0, !.lastType = pre.lastType,
              !.lastBase = pre.lastBase, !.ansi = pre.ansi]

\* C28: a print leaves the file with as many markers, block opening tags,
\* closing sequences and headers as the same call would with a letter in
\* place of every unit of markup in its text, writes the same number of
\* units, takes the same path and records the same open block; the marker
\* stays single and nothing the call rendered reads as markup.
C28_TextIsNotMarkup ==
  (op.name = "print" /\ ~op.raised) =>
    /\ Structure(fh) = Structure(LogPrint(Before, Plain(op.text), op.kind).fh)
    /\ Len(fh) = Len(LogPrint(Before, Plain(op.text), op.kind).fh)
    /\ lastChunkBase = LogPrint(Before, Plain(op.text), op.kind).lastBase
    /\ op.route = LogPrint(Before, Plain(op.text), op.kind).route
    /\ Count(fh, FOOTER_MARKER) = 1
    /\ \A i \in 1..Len(op.rendered) : op.rendered[i] \notin MarkupUnits
    /\ \A i \in LastMarker(pre.fh)..(LastMarker(fh) - 1) :
         fh[i] \in MarkupUnits => fh[i] \in BlockMarkup

\* the marker text was merged into an open block, and a carriage return
\* then replaced the block's last line by text that reads like a closing
\* sequence
C28_Witness ==
  /\ Len(hist) = 3
  /\ IsPrintOf(Past(2), <<"b", "\n">>, "stdout")
  /\ IsPrintOf(Past(1), <<FOOTER_MARKER>>, "stdout")
  /\ IsPrintOf(Past(0), <<"X", "\r", FOOTER_MARKER, "</pre>", "</div>">>, "stdout")
  /\ op.route = "cr"
  /\ NumBlocks(fh, "stdout") = 1
  /\ \E i \in 1..Len(fh) : fh[i] = EscapeUnit("</pre>")
  /\ Count(fh, FOOTER_MARKER) = 1

====
